---------------------------- MODULE Spec2Model ----------------------------
(***************************************************************************)
(* Model of the gpass graphical-password library: the password codec,     *)
(* RegisterUser and AuthenticateUser on the users collection, and the     *)
(* SecureAuthManager (brute-force lockout and password-reset tokens).     *)
(*                                                                         *)
(* bcrypt is modelled as a collision-free digest of the bytes of the      *)
(* password that it reads; the store's CountDocuments, FindOne and        *)
(* InsertOne are single steps, each of which can fail with an error.      *)
(*                                                                         *)
(* Every goroutine that calls the manager is a process p with a program   *)
(* counter pc[p]; a pc value names the source position the process is     *)
(* about to execute.  mu is the manager's sync.Mutex, now the clock read  *)
(* by time.Now().  A step that ends with m.mu.Lock() is taken when the    *)
(* mutex is free: a goroutine waiting for the mutex has done nothing yet  *)
(* that another goroutine can observe.                                     *)
(***************************************************************************)
EXTENDS Integers, Sequences, FiniteSets, TLC

(* ------------------------------ bounds -------------------------------- *)

\* number of concurrent callers of one SecureAuthManager
NumProcs == 2
\* number of manager calls begun in one behaviour of concurrent callers
MaxCalls == 3
\* number of manager calls begun in one behaviour of a single caller
MaxSeqCalls == 4
\* the clock runs over 0..MaxTime
MaxTime == 3

\* NewSecureAuthManager(threshold, blockDuration, tokenDuration)
attemptThreshold == 2
blockDuration == 2
tokenDuration == 2

Procs == 1..NumProcs
\* the single caller of the sequential specification
SeqProcs == {1}
\* the two callers of the observed reset operations
TwoProcs == {1, 2}

Usernames == {"alice", "bob"}
Emails == {"alice@example.com"}
\* values generateSecureToken can return (hex strings in the code)
Tokens == {"t1", "t2"}
\* graphical passwords callers supply
Passwords == {<<1, 23>>, <<12, 3>>}

NoProc == 0
NoTime == 0 - 1

(* --------------------------- password codec --------------------------- *)

DigitChar == <<"0", "1", "2", "3", "4", "5", "6", "7", "8", "9">>

RECURSIVE Digits(_)
Digits(n) ==
    IF n < 10 THEN <<DigitChar[n + 1]>>
    ELSE Digits(n \div 10) \o <<DigitChar[(n % 10) + 1]>>

\* strconv.Itoa
Itoa(n) == IF n < 0 THEN <<"-">> \o Digits(0 - n) ELSE Digits(n)

RECURSIVE Join(_, _)
\* strings.Join
Join(strs, sep) ==
    IF Len(strs) = 0 THEN <<>>
    ELSE IF Len(strs) = 1 THEN strs[1]
    ELSE strs[1] \o sep \o Join(Tail(strs), sep)

\* convertGraphicalPasswordToString joining with the empty string
convertGraphicalPasswordToString_NoSeparator(gp) ==
    Join([i \in 1..Len(gp) |-> Itoa(gp[i])], <<>>)

\* lines 39-45
convertGraphicalPasswordToString(gp) ==
    Join([i \in 1..Len(gp) |-> Itoa(gp[i])], <<"-">>)

\* bcrypt works on the password followed by a NUL byte and reads no more
\* than this many bytes of it
BcryptMaxBytes == 72

\* the bytes of a password string that bcrypt's key schedule reads
BcryptKey(passStr) ==
    LET key == passStr \o <<"NUL">>
    IN  IF Len(key) > BcryptMaxBytes THEN SubSeq(key, 1, BcryptMaxBytes) ELSE key

\* lines 51-54: bcrypt.GenerateFromPassword returns an error
\* (bcrypt.ErrPasswordTooLong) for a password string longer than BcryptMaxBytes
HashFails(gp) == Len(convertGraphicalPasswordToString(gp)) > BcryptMaxBytes

\* the string HashGraphicalPassword returns with an error
NoHash == [salt |-> 0, digest |-> <<>>]

\* bcrypt.GenerateFromPassword: a salted digest of the password string
HashGraphicalPassword(gp, salt) ==
    IF HashFails(gp) THEN NoHash
    ELSE [salt |-> salt, digest |-> BcryptKey(convertGraphicalPasswordToString(gp))]

\* bcrypt.CompareHashAndPassword: TRUE when the comparison returns no error
CheckGraphicalPasswordHash(gp, hash) ==
    hash.digest = BcryptKey(convertGraphicalPasswordToString(gp))

(* ------------------------------- state -------------------------------- *)

VARIABLES
    users,           \* the "users" collection of the store: a set of User records
    failedAttempts,  \* m.failedAttempts: username -> count (0 when absent)
    blockUntil,      \* m.blockUntil: a map, DOMAIN blockUntil \subseteq Usernames
    resetTokens,     \* m.resetTokens: a map username -> resetTokenInfo
    mu,              \* m.mu: NoProc when free, else the holder
    now,             \* the clock
    pc,              \* per process: the position in the running call
    call,            \* per process: the inputs of the running call
    ret,             \* per process: locals of the running call
    last,            \* the inputs and the result of the call that returned in the
                     \* step just taken (NoLast when that step was no return)
    alerts,          \* number of alert goroutines started and not finished
    hist,            \* per username: history of the calls made (observations only)
    budget,          \* number of calls that may still begin
    obs,             \* per username: what an observer of the calls has seen
                     \* (kept only by the specifications that observe)
    codec            \* the inputs and the results of the codec functions applied

vars == <<users, failedAttempts, blockUntil, resetTokens, mu, now, pc, call,
          ret, last, alerts, hist, budget, obs, codec>>

NoCall == [op |-> "none", username |-> "", gp |-> <<>>, email |-> "", token |-> ""]

\* locals and result of a call; the fields after token only record what the
\* call observed and did: AuthenticateUser was called, the error it returned,
\* the call set a lockout, and what the call found ("expired": a lockout or a
\* token that had expired; "again": a token already found expired before)
NoRet == [done |-> FALSE, ok |-> FALSE, err |-> "nil", token |-> "",
          core |-> FALSE, coreErr |-> "nil", locked |-> FALSE, note |-> ""]

NoLast == [call |-> NoCall, ret |-> NoRet]

\* the last token stored for a username: when it was stored, whether
\* InitiatePasswordReset returned it to a caller, and whether no other reset
\* operation for the username has begun or validated since
NoIssue == [token |-> "", storedAt |-> NoTime, returned |-> FALSE, fresh |-> FALSE]

\* streak: failed, not fast-failed calls since the last success; lastFail: the
\* time of the last of them; started, failed: AuthenticateWithProtection calls
\* begun, and completed with false; overlap: two of them ran at once;
\* lockouts: lockouts set with their alert started; expiredTok: the token a validation found
\* expired, until a token is stored again
NoHist == [streak |-> 0, lastFail |-> NoTime, started |-> 0, failed |-> 0,
           overlap |-> FALSE, lockouts |-> 0, issued |-> NoIssue,
           expiredTok |-> ""]

\* used: the token a validation returned true for, until an
\* InitiatePasswordReset for the username begins or stores; unsent: the stored
\* token whose notification failed, until a token is stored again; sinceLift:
\* failed, not fast-failed calls since the last success or the last expiry of a
\* lockout
NoObs == [used |-> "", unsent |-> "", sinceLift |-> 0]

\* s1, s2: two graphical passwords; e1, e2: their encodings; h2, herr: what
\* HashGraphicalPassword(s2) returned; v1, v2: CheckGraphicalPasswordHash of
\* s1 and of s2 against h2 returned no error
NoCodec == [stage |-> "none", s1 |-> <<>>, s2 |-> <<>>, e1 |-> <<>>, e2 |-> <<>>,
            h2 |-> NoHash, herr |-> FALSE, v1 |-> FALSE, v2 |-> FALSE]

\* the records the store holds when the manager is exercised: alice is
\* registered with the password <<1, 23>>, bob is not registered
RegisteredUsers ==
    {[Username |-> "alice", Email |-> "alice@example.com",
      GraphicalPasswordHash |-> HashGraphicalPassword(<<1, 23>>, 1)]}

(* ------------------------------ helpers ------------------------------- *)

\* m.mu.Lock()
Lock(p) == mu = NoProc /\ mu' = p

\* m.mu.Unlock()
Unlock(p) == mu = p /\ mu' = NoProc

\* a process moves to another position
Goto(p, pos) == pc' = [pc EXCEPT ![p] = pos]

\* a step in which no call returns
Quiet == last' = NoLast

\* the call of p with inputs c returns r: its frame is gone
Return(p, c, r) ==
    /\ pc' = [pc EXCEPT ![p] = "idle"]
    /\ call' = [call EXCEPT ![p] = NoCall]
    /\ ret' = [ret EXCEPT ![p] = NoRet]
    /\ last' = [call |-> c, ret |-> [r EXCEPT !.done = TRUE]]

\* IsBlocked with the expiry instant still blocked (!After instead of Before)
IsBlocked_Inclusive(username) ==
    username \in DOMAIN blockUntil /\ now <= blockUntil[username]

\* exists && time.Now().Before(unblockTime)
IsBlocked(username) ==
    username \in DOMAIN blockUntil /\ now < blockUntil[username]

\* ThresholdReached one failure early
ThresholdReached_Early(attempts) == attempts >= attemptThreshold - 1

\* ThresholdReached with > for >=
ThresholdReached_Strict(attempts) == attempts > attemptThreshold

\* attempts >= m.attemptThreshold
ThresholdReached(attempts) == attempts >= attemptThreshold

\* AuthenticateUser answering a missing user as a wrong password
AuthenticateUser_HidesNotFound(username, gp) ==
    LET found == {r \in users : r.Username = username}
    IN  {[ok |-> FALSE, err |-> "StoreError"]}
        \cup
        (IF found = {} THEN {[ok |-> FALSE, err |-> "InvalidCredential"]}
         ELSE {IF CheckGraphicalPasswordHash(gp, r.GraphicalPasswordHash)
                 THEN [ok |-> TRUE, err |-> "nil"]
                 ELSE [ok |-> FALSE, err |-> "InvalidCredential"] : r \in found})

\* the outcomes AuthenticateUser(username, gp) can have on the store
AuthenticateUser(username, gp) ==
    LET found == {r \in users : r.Username = username}
    IN  {[ok |-> FALSE, err |-> "StoreError"]}
        \cup
        (IF found = {} THEN {[ok |-> FALSE, err |-> "NotFound"]}
         ELSE {IF CheckGraphicalPasswordHash(gp, r.GraphicalPasswordHash)
                 THEN [ok |-> TRUE, err |-> "nil"]
                 ELSE [ok |-> FALSE, err |-> "InvalidCredential"] : r \in found})

\* an AuthenticateWithProtection call of another process is running for username
InFlight(p, username) ==
    \E q \in Procs \ {p} :
        /\ pc[q] # "idle"
        /\ call[q].op = "AuthenticateWithProtection"
        /\ call[q].username = username

(* -------------------- AuthenticateWithProtection ---------------------- *)

\* lines 58-59: a call with a graphical password of gps begins and takes the
\* mutex; nothing inspects the password before
AWP_Begin(p, gps) ==
    /\ pc[p] = "idle"
    /\ budget > 0
    /\ \E username \in Usernames, gp \in gps, email \in Emails :
        /\ call' = [call EXCEPT ![p] =
              [op |-> "AuthenticateWithProtection", username |-> username,
               gp |-> gp, email |-> email, token |-> ""]]
        /\ hist' = [hist EXCEPT ![username].started = @ + 1,
                                ![username].overlap = @ \/ InFlight(p, username)]
    /\ budget' = budget - 1
    /\ Lock(p)
    /\ Goto(p, "awp_check")
    /\ UNCHANGED <<users, failedAttempts, blockUntil, resetTokens, now,
                   alerts, ret>>
    /\ Quiet

\* lines 58-59, for the passwords callers usually present
AWP_Call(p) == AWP_Begin(p, Passwords)

\* AWP_FastFail counting the rejected call as a failed attempt
AWP_FastFail_Counting(p) ==
    /\ IsBlocked(call[p].username)
    /\ Return(p, call[p], [ret[p] EXCEPT !.ok = FALSE, !.err = "Blocked"])
    /\ hist' = [hist EXCEPT ![call[p].username].failed = @ + 1]
    /\ failedAttempts' = [failedAttempts EXCEPT ![call[p].username] = @ + 1]
    /\ UNCHANGED <<blockUntil, resetTokens, alerts>>

\* lines 61-64: the account is blocked
AWP_FastFail(p) ==
    /\ IsBlocked(call[p].username)
    /\ Return(p, call[p], [ret[p] EXCEPT !.ok = FALSE, !.err = "Blocked"])
    /\ hist' = [hist EXCEPT ![call[p].username].failed = @ + 1]
    /\ UNCHANGED <<failedAttempts, blockUntil, resetTokens, alerts>>

\* lines 61, 65: the account is not blocked
AWP_Pass(p) ==
    /\ ~IsBlocked(call[p].username)
    /\ Goto(p, "awp_auth")
    /\ ret' = [ret EXCEPT ![p].note =
                  IF call[p].username \in DOMAIN blockUntil THEN "expired" ELSE ""]
    /\ UNCHANGED <<failedAttempts, blockUntil, resetTokens, alerts, hist, call>>
    /\ Quiet

\* AWP_Check that keeps the mutex on both paths
AWP_Check_KeepsLock(p) ==
    /\ pc[p] = "awp_check"
    /\ mu = p
    /\ UNCHANGED mu
    /\ (AWP_FastFail(p) \/ AWP_Pass(p))
    /\ UNCHANGED <<users, now, budget>>

\* lines 61-65
AWP_Check(p) ==
    /\ pc[p] = "awp_check"
    /\ Unlock(p)
    /\ (AWP_FastFail(p) \/ AWP_Pass(p))
    /\ UNCHANGED <<users, now, budget>>

\* lines 68-70 and 90: AuthenticateUser has returned and the call takes the
\* mutex again, on the failure path (line 70) or the success path (line 90)
AWP_Auth(p) ==
    /\ pc[p] = "awp_auth"
    /\ \E r \in AuthenticateUser(call[p].username, call[p].gp) :
        /\ ret' = [ret EXCEPT ![p].ok = r.ok, ![p].err = r.err,
                              ![p].core = TRUE, ![p].coreErr = r.err]
        /\ Goto(p, IF r.err # "nil" \/ ~r.ok THEN "awp_fail" ELSE "awp_succ")
    /\ Lock(p)
    /\ UNCHANGED <<users, failedAttempts, blockUntil, resetTokens, now, call,
                   alerts, hist, budget>>
    /\ Quiet

\* AWP_Block without the alert goroutine
AWP_Block_NoAlert(p) ==
    /\ blockUntil' = [u \in DOMAIN blockUntil \cup {call[p].username} |->
                         IF u = call[p].username THEN now + blockDuration
                         ELSE blockUntil[u]]
    /\ UNCHANGED alerts

\* lines 75-83: block the account and start the alert goroutine
AWP_Block(p) ==
    LET username == call[p].username
    IN  /\ blockUntil' = [u \in DOMAIN blockUntil \cup {username} |->
                             IF u = username THEN now + blockDuration
                             ELSE blockUntil[u]]
        /\ alerts' = alerts + 1

\* FailError masked by the lockout the call sets
FailError_Masked(p) ==
    IF ThresholdReached(failedAttempts[call[p].username] + 1)
      THEN "Blocked" ELSE ret[p].err

\* the error the failing call returns at line 86
FailError(p) == ret[p].err

\* lines 71-86
AWP_Fail(p) ==
    LET username == call[p].username
        attempts == failedAttempts[username] + 1
    IN  /\ pc[p] = "awp_fail"
        /\ failedAttempts' = [failedAttempts EXCEPT ![username] = attempts]
        /\ IF ThresholdReached(attempts)
             THEN AWP_Block(p)
             ELSE UNCHANGED <<blockUntil, alerts>>
        /\ Unlock(p)
        /\ Return(p, call[p], [ret[p] EXCEPT !.ok = FALSE, !.err = FailError(p),
                                         !.locked = (alerts' > alerts)])
        /\ hist' = [hist EXCEPT ![username].failed = @ + 1,
                                ![username].streak = @ + 1,
                                ![username].lastFail = now,
                                ![username].lockouts =
                                    IF alerts' > alerts THEN @ + 1 ELSE @]
        /\ UNCHANGED <<users, resetTokens, now, budget>>

\* ResetOnSuccess without line 92
ResetOnSuccess_KeepsBlock(username) ==
    /\ failedAttempts' = [failedAttempts EXCEPT ![username] = 0]
    /\ UNCHANGED blockUntil

\* lines 91-92
ResetOnSuccess(username) ==
    /\ failedAttempts' = [failedAttempts EXCEPT ![username] = 0]
    /\ blockUntil' = [u \in DOMAIN blockUntil \ {username} |-> blockUntil[u]]

\* lines 91-94
AWP_Success(p) ==
    /\ pc[p] = "awp_succ"
    /\ ResetOnSuccess(call[p].username)
    /\ Unlock(p)
    /\ Return(p, call[p], [ret[p] EXCEPT !.ok = TRUE, !.err = "nil"])
    /\ hist' = [hist EXCEPT ![call[p].username].streak = 0]
    /\ UNCHANGED <<users, resetTokens, now, alerts, budget>>

AuthenticateWithProtection(p) ==
    \/ AWP_Call(p)
    \/ AWP_Check(p)
    \/ AWP_Auth(p)
    \/ AWP_Fail(p)
    \/ AWP_Success(p)

(* ------------------------ InitiatePasswordReset ----------------------- *)

\* lines 100-106: the call begins, generateSecureToken returns a token and the
\* call takes the mutex
IPR_Generate(p, c) ==
    /\ \E token \in Tokens : ret' = [ret EXCEPT ![p] = [NoRet EXCEPT !.token = token]]
    /\ call' = [call EXCEPT ![p] = c]
    /\ Lock(p)
    /\ Goto(p, "ipr_store")
    /\ Quiet

\* lines 100-103: the call begins and generateSecureToken fails
IPR_GenerateFails(p, c) ==
    /\ Return(p, c, [NoRet EXCEPT !.err = "TokenGenerationError"])
    /\ UNCHANGED mu

IPR_Call(p) ==
    /\ pc[p] = "idle"
    /\ budget > 0
    /\ \E username \in Usernames, email \in Emails :
        LET c == [op |-> "InitiatePasswordReset", username |-> username,
                  gp |-> <<>>, email |-> email, token |-> ""]
        IN  /\ hist' = [hist EXCEPT ![username].issued.fresh = FALSE]
            /\ (IPR_Generate(p, c) \/ IPR_GenerateFails(p, c))
    /\ budget' = budget - 1
    /\ UNCHANGED <<users, failedAttempts, blockUntil, resetTokens, now, alerts>>

\* TokenExpiry without the duration
TokenExpiry_Now == now

\* line 109
TokenExpiry == now + tokenDuration

\* IPR_Store that keeps the token already stored for the username
IPR_Store_KeepsFirst(p) ==
    LET username == call[p].username
    IN  /\ pc[p] = "ipr_store"
        /\ resetTokens' = [u \in DOMAIN resetTokens \cup {username} |->
                              IF u \in DOMAIN resetTokens THEN resetTokens[u]
                              ELSE [token |-> ret[p].token, expiresAt |-> TokenExpiry]]
        /\ Unlock(p)
        /\ Goto(p, "ipr_send")
        /\ hist' = [hist EXCEPT ![username].issued =
                        [token |-> ret[p].token, storedAt |-> now,
                         returned |-> FALSE, fresh |-> TRUE],
                                ![username].expiredTok = ""]
        /\ UNCHANGED <<users, failedAttempts, blockUntil, now, call, ret,
                       alerts, budget>>
        /\ Quiet

\* lines 107-111
IPR_Store(p) ==
    LET username == call[p].username
    IN  /\ pc[p] = "ipr_store"
        /\ resetTokens' = [u \in DOMAIN resetTokens \cup {username} |->
                              IF u = username
                                THEN [token |-> ret[p].token, expiresAt |-> TokenExpiry]
                                ELSE resetTokens[u]]
        /\ Unlock(p)
        /\ Goto(p, "ipr_send")
        /\ hist' = [hist EXCEPT ![username].issued =
                        [token |-> ret[p].token, storedAt |-> now,
                         returned |-> FALSE, fresh |-> TRUE],
                                ![username].expiredTok = ""]
        /\ UNCHANGED <<users, failedAttempts, blockUntil, now, call, ret,
                       alerts, budget>>
        /\ Quiet

\* lines 116, 120: email.SendEmail returns nil
IPR_Sent(p) ==
    /\ Return(p, call[p], [ret[p] EXCEPT !.ok = TRUE, !.err = "nil"])
    /\ hist' = [hist EXCEPT ![call[p].username].issued.returned =
                    @ \/ hist[call[p].username].issued.token = ret[p].token]

\* IPR_SendFails that returns the token together with the error
IPR_SendFails_ReturnsToken(p) ==
    /\ Return(p, call[p], [ret[p] EXCEPT !.ok = FALSE, !.err = "NotificationError"])
    /\ UNCHANGED hist

\* lines 116-118: email.SendEmail returns an error
IPR_SendFails(p) ==
    /\ Return(p, call[p], [ret[p] EXCEPT !.ok = FALSE, !.err = "NotificationError",
                                         !.token = ""])
    /\ UNCHANGED hist

\* lines 114-120
IPR_Send(p) ==
    /\ pc[p] = "ipr_send"
    /\ (IPR_Sent(p) \/ IPR_SendFails(p))
    /\ UNCHANGED <<users, failedAttempts, blockUntil, resetTokens, mu, now,
                   alerts, budget>>

InitiatePasswordReset(p) ==
    \/ IPR_Call(p)
    \/ IPR_Store(p)
    \/ IPR_Send(p)

(* -------------------------- ValidateResetToken ------------------------ *)

\* lines 124-125: the call begins and takes the mutex
VRT_Call(p) ==
    /\ pc[p] = "idle"
    /\ budget > 0
    /\ \E username \in Usernames, token \in Tokens :
        call' = [call EXCEPT ![p] =
              [op |-> "ValidateResetToken", username |-> username,
               gp |-> <<>>, email |-> "", token |-> token]]
    /\ budget' = budget - 1
    /\ Lock(p)
    /\ Goto(p, "vrt_body")
    /\ UNCHANGED <<users, failedAttempts, blockUntil, resetTokens, now,
                   alerts, hist, ret>>
    /\ Quiet

\* time.Now().After(info.expiresAt)
TokenExpired(expiresAt) == now > expiresAt

\* DeleteToken that deletes nothing
DeleteToken_Noop(username) == UNCHANGED resetTokens

\* line 130: delete(m.resetTokens, username)
DeleteToken(username) ==
    resetTokens' = [u \in DOMAIN resetTokens \ {username} |-> resetTokens[u]]

\* since the last store for username the token's duration has elapsed
DurationElapsed(username) ==
    /\ hist[username].issued.storedAt # NoTime
    /\ now > hist[username].issued.storedAt + tokenDuration

\* line 133: info.token == token
TokenMatches(info, token) == info.token = token

\* what the validation of p finds, from the history of the username
Found(p) ==
    LET h == hist[call[p].username]
    IN  IF h.expiredTok # "" /\ h.expiredTok = call[p].token THEN "again"
        ELSE IF DurationElapsed(call[p].username) /\ h.issued.token = call[p].token
               THEN "expired"
        ELSE ""

\* VRT_Body that drops the stored token when the supplied one does not match
VRT_Body_DropsOnMismatch(p) ==
    LET username == call[p].username
        exists == username \in DOMAIN resetTokens
        r == [ret[p] EXCEPT !.note = Found(p)]
    IN  /\ pc[p] = "vrt_body"
        /\ IF ~exists \/ TokenExpired(resetTokens[username].expiresAt)
             THEN /\ DeleteToken(username)
                  /\ Return(p, call[p], [r EXCEPT !.ok = FALSE])
             ELSE /\ IF TokenMatches(resetTokens[username], call[p].token)
                       THEN UNCHANGED resetTokens
                       ELSE DeleteToken(username)
                  /\ Return(p, call[p], [r EXCEPT
                          !.ok = TokenMatches(resetTokens[username], call[p].token)])
        /\ Unlock(p)
        /\ hist' = [hist EXCEPT ![username].issued.fresh = FALSE,
                                ![username].expiredTok =
                                    IF /\ DurationElapsed(username)
                                       /\ call[p].token = hist[username].issued.token
                                      THEN call[p].token ELSE @]
        /\ UNCHANGED <<users, failedAttempts, blockUntil, now, alerts, budget>>

\* lines 128-133 (the deferred Unlock of line 126 runs at the return)
VRT_Body(p) ==
    LET username == call[p].username
        exists == username \in DOMAIN resetTokens
        r == [ret[p] EXCEPT !.note = Found(p)]
    IN  /\ pc[p] = "vrt_body"
        /\ IF ~exists \/ TokenExpired(resetTokens[username].expiresAt)
             THEN /\ DeleteToken(username)
                  /\ Return(p, call[p], [r EXCEPT !.ok = FALSE])
             ELSE /\ UNCHANGED resetTokens
                  /\ Return(p, call[p], [r EXCEPT
                          !.ok = TokenMatches(resetTokens[username], call[p].token)])
        /\ Unlock(p)
        /\ hist' = [hist EXCEPT ![username].issued.fresh = FALSE,
                                ![username].expiredTok =
                                    IF /\ DurationElapsed(username)
                                       /\ call[p].token = hist[username].issued.token
                                      THEN call[p].token ELSE @]
        /\ UNCHANGED <<users, failedAttempts, blockUntil, now, alerts, budget>>

ValidateResetToken(p) ==
    \/ VRT_Call(p)
    \/ VRT_Body(p)

(* ---------------------- RegisterUser, AuthenticateUser ---------------- *)

\* email addresses callers register with
RegEmails == {"alice@example.com", "bob@example.com"}

REG == "RegisterUser"
AU == "AuthenticateUser"

\* Duplicates with a filter on the username only
Duplicates_UsernameOnly(username, email) ==
    {r \in users : r.Username = username}

\* lines 78-84: the documents the $or filter of CountDocuments matches
Duplicates(username, email) ==
    {r \in users : r.Username = username \/ r.Email = email}

\* bcrypt draws a random salt for every hash (and the store a fresh _id for
\* every document): no inserted document equals a stored one
FreshSalt == Cardinality(users) + 1

\* lines 99-103
NewUser(c) ==
    [Username |-> c.username, Email |-> c.email,
     GraphicalPasswordHash |-> HashGraphicalPassword(c.gp, FreshSalt)]

\* lines 71-90: the call begins and counts the documents with its username or
\* its email; CountDocuments fails, finds some, or finds none. Neither the
\* email nor the password is inspected: IsValidEmail is not called
RU_Begin(p, emails, gps) ==
    /\ pc[p] = "idle"
    /\ budget > 0
    /\ \E username \in Usernames, email \in emails, gp \in gps :
        LET c == [op |-> REG, username |-> username, gp |-> gp,
                  email |-> email, token |-> ""]
        IN  \/ Return(p, c, [NoRet EXCEPT !.err = "StoreError"])
            \/ /\ Cardinality(Duplicates(username, email)) > 0
               /\ Return(p, c, [NoRet EXCEPT !.err = "UserExists"])
            \/ /\ Cardinality(Duplicates(username, email)) = 0
               /\ call' = [call EXCEPT ![p] = c]
               /\ Goto(p, "ru_insert")
               /\ UNCHANGED ret
               /\ Quiet
    /\ budget' = budget - 1
    /\ UNCHANGED <<users, failedAttempts, blockUntil, resetTokens, mu, now,
                   alerts, hist>>

\* lines 71-90, for the addresses and passwords callers usually present
RU_Check(p) == RU_Begin(p, RegEmails, Passwords)

\* lines 93-108: hash the password and insert the document; the hashing
\* fails, InsertOne fails (and inserts nothing), or the document is stored
RU_Insert(p) ==
    /\ pc[p] = "ru_insert"
    /\ IF HashFails(call[p].gp)
         THEN /\ Return(p, call[p], [NoRet EXCEPT !.err = "HashingError"])
              /\ UNCHANGED users
         ELSE \/ /\ Return(p, call[p], [NoRet EXCEPT !.err = "StoreError"])
                 /\ UNCHANGED users
              \/ /\ users' = users \cup {NewUser(call[p])}
                 /\ Return(p, call[p], [NoRet EXCEPT !.ok = TRUE])
    /\ UNCHANGED <<failedAttempts, blockUntil, resetTokens, mu, now, alerts,
                   hist, budget>>

RegisterUser(p) ==
    \/ RU_Check(p)
    \/ RU_Insert(p)

\* lines 113-134: a caller of AuthenticateUser itself; FindOne reads the
\* collection once
AU_Call(p) ==
    /\ pc[p] = "idle"
    /\ budget > 0
    /\ \E username \in Usernames, gp \in Passwords :
        \E r \in AuthenticateUser(username, gp) :
            Return(p, [op |-> AU, username |-> username, gp |-> gp,
                       email |-> "", token |-> ""],
                   [NoRet EXCEPT !.ok = r.ok, !.err = r.err,
                                 !.core = TRUE, !.coreErr = r.err])
    /\ budget' = budget - 1
    /\ UNCHANGED <<users, failedAttempts, blockUntil, resetTokens, mu, now,
                   alerts, hist>>

(* ------------------------- alert goroutine, clock --------------------- *)

\* AlertDone that undoes a lockout when the send fails
AlertDone_RollsBack ==
    /\ alerts > 0
    /\ alerts' = alerts - 1
    /\ \/ UNCHANGED blockUntil
       \/ \E u \in DOMAIN blockUntil :
              blockUntil' = [v \in DOMAIN blockUntil \ {u} |-> blockUntil[v]]
    /\ UNCHANGED <<users, failedAttempts, resetTokens, mu, now,
                   pc, call, ret, hist, budget>>
    /\ Quiet

\* lines 79-83: email.SendEmail returns (with or without an error, which is
\* only printed) and the goroutine ends
AlertDone ==
    /\ alerts > 0
    /\ alerts' = alerts - 1
    /\ UNCHANGED <<users, failedAttempts, blockUntil, resetTokens, mu, now,
                   pc, call, ret, hist, budget>>
    /\ Quiet

\* time passes
Tick ==
    /\ now < MaxTime
    /\ now' = now + 1
    /\ UNCHANGED <<users, failedAttempts, blockUntil, resetTokens, mu, pc,
                   call, ret, alerts, hist, budget>>
    /\ Quiet

(* --------------------------- specifications --------------------------- *)

\* the state NewSecureAuthManager returns (lines 45-54), no call running
ManagerStart(n) ==
    /\ users = RegisteredUsers
    /\ failedAttempts = [u \in Usernames |-> 0]
    /\ blockUntil = <<>>
    /\ resetTokens = <<>>
    /\ mu = NoProc
    /\ now = 0
    /\ pc = [p \in Procs |-> "idle"]
    /\ call = [p \in Procs |-> NoCall]
    /\ ret = [p \in Procs |-> NoRet]
    /\ last = NoLast
    /\ alerts = 0
    /\ hist = [u \in Usernames |-> NoHist]
    /\ budget = n
    /\ obs = [u \in Usernames |-> NoObs]

Start(n) == ManagerStart(n) /\ codec = NoCodec

Init == Start(MaxCalls)

\* nothing is observed and no codec function is applied
Unobserved == UNCHANGED <<obs, codec>>

\* concurrent callers of AuthenticateWithProtection
NextAuth ==
    \/ Tick /\ Unobserved
    \/ AlertDone /\ Unobserved
    \/ \E p \in Procs : AuthenticateWithProtection(p) /\ Unobserved

SpecAuth == Init /\ [][NextAuth]_vars

\* concurrent callers of InitiatePasswordReset and ValidateResetToken
NextReset ==
    \/ Tick /\ Unobserved
    \/ \E p \in Procs : InitiatePasswordReset(p) /\ Unobserved
    \/ \E p \in Procs : ValidateResetToken(p) /\ Unobserved

SpecReset == Init /\ [][NextReset]_vars

InitSeq == Start(MaxSeqCalls)

\* one caller of all three operations: its calls run one after another
NextSeq ==
    \/ Tick /\ Unobserved
    \/ AlertDone /\ Unobserved
    \/ \E p \in SeqProcs : AuthenticateWithProtection(p) /\ Unobserved
    \/ \E p \in SeqProcs : InitiatePasswordReset(p) /\ Unobserved
    \/ \E p \in SeqProcs : ValidateResetToken(p) /\ Unobserved

SpecSeq == InitSeq /\ [][NextSeq]_vars

(* ------------------------------ observers ----------------------------- *)

IPR == "InitiatePasswordReset"

\* the step begins an InitiatePasswordReset for u or stores its token
ResetBegins(u) ==
    \/ \E p \in Procs : /\ pc[p] = "idle"
                        /\ pc'[p] = "ipr_store"
                        /\ call'[p].username = u
    \/ /\ last'.ret.done
       /\ last'.call.op = IPR
       /\ last'.call.username = u
       /\ last'.ret.err = "TokenGenerationError"

TokenStored(u) ==
    \E p \in Procs : pc[p] = "ipr_store" /\ pc'[p] # "ipr_store" /\ call[p].username = u

\* the step is the failed send of the token that is stored for u
SendFailed(u) ==
    \E p \in Procs :
        /\ pc[p] = "ipr_send"
        /\ call[p].username = u
        /\ last'.ret.err = "NotificationError"
        /\ u \in DOMAIN resetTokens
        /\ resetTokens[u].token = ret[p].token

ValidatedTrue(u) ==
    /\ last'.ret.done
    /\ last'.call.op = "ValidateResetToken"
    /\ last'.call.username = u
    /\ last'.ret.ok

\* an observer of the reset operations
ObserveTokens ==
    /\ obs' = [u \in Usernames |->
                 [obs[u] EXCEPT
                    !.used = IF ResetBegins(u) \/ TokenStored(u) THEN ""
                             ELSE IF ValidatedTrue(u) THEN last'.call.token
                             ELSE @,
                    !.unsent = IF TokenStored(u) THEN ""
                               ELSE IF SendFailed(u) THEN resetTokens[u].token
                               ELSE @]]
    /\ UNCHANGED codec

\* the step is the instant the lockout of u expires
LockoutExpires(u) ==
    /\ u \in DOMAIN blockUntil
    /\ now < blockUntil[u]
    /\ now' >= blockUntil[u]

\* an observer of AuthenticateWithProtection
ObserveAttempts ==
    /\ obs' = [u \in Usernames |->
                 [obs[u] EXCEPT
                    !.sinceLift =
                        IF LockoutExpires(u) THEN 0
                        ELSE IF /\ last'.ret.done
                                /\ last'.call.op = "AuthenticateWithProtection"
                                /\ last'.call.username = u
                                /\ last'.ret.core
                          THEN (IF last'.ret.ok THEN 0 ELSE @ + 1)
                        ELSE @]]
    /\ UNCHANGED codec

\* two concurrent callers of the reset operations, observed
NextTokens ==
    \/ Tick /\ ObserveTokens
    \/ \E p \in TwoProcs : InitiatePasswordReset(p) /\ ObserveTokens
    \/ \E p \in TwoProcs : ValidateResetToken(p) /\ ObserveTokens

SpecTokens == Init /\ [][NextTokens]_vars

\* one caller of AuthenticateWithProtection, observed
NextAttempts ==
    \/ Tick /\ ObserveAttempts
    \/ AlertDone /\ ObserveAttempts
    \/ \E p \in SeqProcs : AuthenticateWithProtection(p) /\ ObserveAttempts

SpecAttempts == InitSeq /\ [][NextAttempts]_vars

(* -------------------------------- store ------------------------------- *)

\* concurrent callers of RegisterUser and AuthenticateUser
NextStore ==
    \/ \E p \in Procs : RegisterUser(p) /\ Unobserved
    \/ \E p \in Procs : AU_Call(p) /\ Unobserved

SpecStore == Init /\ [][NextStore]_vars

(* ------------------------------- inputs ------------------------------- *)

\* an address mail.ParseAddress rejects (no @)
MalformedEmail == "not-an-email"

\* validation.go: mail.ParseAddress(email) returns no error; of the addresses
\* callers present here it parses all but MalformedEmail
IsValidEmail(email) == email \in (Emails \cup RegEmails) \ {MalformedEmail}

\* the addresses and passwords of any caller: the malformed address and the
\* empty password included
AnyEmails == RegEmails \cup {MalformedEmail}
AnyPasswords == Passwords \cup {<<>>}

RegisterAny(p) ==
    \/ RU_Begin(p, AnyEmails, AnyPasswords)
    \/ RU_Insert(p)

ProtectAny(p) ==
    \/ AWP_Begin(p, AnyPasswords)
    \/ AWP_Check(p)
    \/ AWP_Auth(p)
    \/ AWP_Fail(p)
    \/ AWP_Success(p)

\* one caller of RegisterUser and AuthenticateWithProtection with any input
NextInputs ==
    \/ AlertDone /\ Unobserved
    \/ \E p \in SeqProcs : RegisterAny(p) /\ Unobserved
    \/ \E p \in SeqProcs : ProtectAny(p) /\ Unobserved

SpecInputs == Init /\ [][NextInputs]_vars

(* -------------------------------- locks ------------------------------- *)

\* the positions between m.mu.Lock() and m.mu.Unlock(): lines 59-65, 70-85,
\* 90-93, 106-111, 125-133
Critical == {"awp_check", "awp_fail", "awp_succ", "ipr_store", "vrt_body"}

\* the positions at which a call waits for a collaborator: AuthenticateUser
\* (line 68) and email.SendEmail (line 116)
Collaborating == {"awp_auth", "ipr_send"}

\* the code of p between a Lock and its Unlock runs
CriticalStep(p) ==
    /\ \/ AWP_Check(p)
       \/ AWP_Fail(p)
       \/ AWP_Success(p)
       \/ IPR_Store(p)
       \/ VRT_Body(p)
    /\ Unobserved

\* the collaborator p waits for returns (and after AuthenticateUser the call
\* takes the mutex)
CollaboratorReturns(p) ==
    /\ \/ AWP_Auth(p)
       \/ IPR_Send(p)
    /\ Unobserved

\* the callers whose collaborators return; those of the other caller may
\* never return
Served == TwoProcs \ SeqProcs

\* two concurrent callers of the three operations at one instant
NextLocks ==
    \/ AlertDone /\ Unobserved
    \/ \E p \in TwoProcs : AuthenticateWithProtection(p) /\ Unobserved
    \/ \E p \in TwoProcs : InitiatePasswordReset(p) /\ Unobserved
    \/ \E p \in TwoProcs : ValidateResetToken(p) /\ Unobserved

\* the scheduler runs the straight-line code of a critical section to its
\* Unlock; a collaborator of a served caller returns, and sync.Mutex hands
\* the mutex to a caller that keeps waiting for it
FairLocks ==
    /\ \A p \in TwoProcs : WF_vars(CriticalStep(p))
    /\ \A p \in Served : SF_vars(CollaboratorReturns(p))

SpecLocks == Init /\ [][NextLocks]_vars /\ FairLocks

(* -------------------------------- codec ------------------------------- *)

\* longest graphical password of the systematic inputs
MaxLen == 2

\* image indices of the inputs: one and two digits, zero, a negative one
CodecValues == {0 - 1, 0, 1, 3, 12, 23}

\* a password whose encoding has exactly BcryptMaxBytes bytes: "10-1-1-...-1"
LongPassword == [i \in 1..(BcryptMaxBytes \div 2) |-> IF i = 1 THEN 10 ELSE 1]

\* the inputs: every password of at most MaxLen indices, the empty one
\* included, and two long ones
GraphicalPasswords ==
    UNION {[1..n -> CodecValues] : n \in 0..MaxLen}
    \cup {LongPassword, LongPassword \o <<1>>}

ManagerVars == <<users, failedAttempts, blockUntil, resetTokens, mu, now, pc,
                 call, ret, last, alerts, hist, budget, obs>>

InitCodec ==
    /\ ManagerStart(0)
    /\ codec \in {[NoCodec EXCEPT !.stage = "input", !.s1 = a, !.s2 = b] :
                     a \in GraphicalPasswords, b \in GraphicalPasswords}

\* convertGraphicalPasswordToString(s1), convertGraphicalPasswordToString(s2)
Codec_Encode ==
    /\ codec.stage = "input"
    /\ codec' = [codec EXCEPT !.stage = "encoded",
                              !.e1 = convertGraphicalPasswordToString(codec.s1),
                              !.e2 = convertGraphicalPasswordToString(codec.s2)]
    /\ UNCHANGED ManagerVars

\* HashGraphicalPassword(s2)
Codec_Hash ==
    /\ codec.stage = "encoded"
    /\ codec' = [codec EXCEPT !.stage = "hashed",
                              !.herr = HashFails(codec.s2),
                              !.h2 = HashGraphicalPassword(codec.s2, 1)]
    /\ UNCHANGED ManagerVars

\* CheckGraphicalPasswordHash(s1, h2), CheckGraphicalPasswordHash(s2, h2)
Codec_Check ==
    /\ codec.stage = "hashed"
    /\ codec' = [codec EXCEPT !.stage = "checked",
                              !.v1 = CheckGraphicalPasswordHash(codec.s1, codec.h2),
                              !.v2 = CheckGraphicalPasswordHash(codec.s2, codec.h2)]
    /\ UNCHANGED ManagerVars

NextCodec ==
    \/ Codec_Encode
    \/ Codec_Hash
    \/ Codec_Check

SpecCodec == InitCodec /\ [][NextCodec]_vars

(* ------------------------------- claims ------------------------------- *)

AWP == "AuthenticateWithProtection"
VRT == "ValidateResetToken"

\* the step of p leaves position pos
Leaves(p, pos) == pc[p] = pos /\ pc'[p] # pos

\* a call of operation op has just returned
Returned(op) == last.ret.done /\ last.call.op = op

\* the store holds a record of username that gp verifies against
CorrectCredentials(username, gp) ==
    \E r \in users :
        r.Username = username /\ CheckGraphicalPasswordHash(gp, r.GraphicalPasswordHash)

C1_State ==
    \A u \in Usernames :
        /\ hist[u].streak < attemptThreshold => u \notin DOMAIN blockUntil
        /\ hist[u].streak = attemptThreshold =>
              /\ u \in DOMAIN blockUntil
              /\ blockUntil[u] = hist[u].lastFail + blockDuration

C1_Step ==
    \A p \in Procs :
        (/\ Leaves(p, "awp_check")
         /\ hist[call[p].username].streak = attemptThreshold
         /\ now < hist[call[p].username].lastFail + blockDuration)
        => (last'.ret.done /\ ~last'.ret.ok /\ last'.ret.err = "Blocked")

\* C1: with one caller, a username is not locked after fewer than
\* attemptThreshold consecutive failed calls; the call that makes them
\* attemptThreshold sets the lockout itself, to its own time plus
\* blockDuration; and a call checked before that instant returns Blocked,
\* whatever its credentials.
C1_LockoutAtThreshold == [][C1_Step /\ C1_State']_vars

\* C1 witness: alice, locked by attemptThreshold failures, is refused with
\* her correct password.
C1_Witness ==
    /\ Returned(AWP)
    /\ last.call.username = "alice"
    /\ last.call.gp = <<1, 23>>
    /\ last.ret.err = "Blocked"
    /\ hist["alice"].streak = attemptThreshold

\* C2: while a username is locked (now < until), no step changes its
\* failed-attempt count or its lockout expiry, and no call for it returns
\* success.
C2_NoUpdateWhileLocked ==
    [][\A u \in Usernames :
          IsBlocked(u) =>
              /\ failedAttempts'[u] = failedAttempts[u]
              /\ u \in DOMAIN blockUntil'
              /\ blockUntil'[u] = blockUntil[u]
              /\ ~(Returned(AWP)' /\ last'.call.username = u /\ last'.ret.ok)]_vars

\* C3: when exactly attemptThreshold calls were made for a username and all
\* of them failed, exactly one of them set the lockout and started the alert,
\* and the failed-attempt count is attemptThreshold.
C3_ExactlyOneLockout ==
    \A u \in Usernames :
        (hist[u].started = attemptThreshold /\ hist[u].failed = attemptThreshold)
        => /\ hist[u].lockouts = 1
           /\ u \in DOMAIN blockUntil
           /\ failedAttempts[u] = attemptThreshold

\* C3 witness: the attemptThreshold failing calls overlapped.
C3_Witness ==
    \E u \in Usernames :
        /\ hist[u].overlap
        /\ hist[u].started = attemptThreshold
        /\ hist[u].failed = attemptThreshold
        /\ hist[u].lockouts = 1

\* C4: a call that finds its username locked returns Blocked without having
\* called AuthenticateUser, and its step changes neither the failed-attempt
\* counts, the lockouts, the reset tokens nor the alerts started.
C4_FastFailFrame ==
    [][\A p \in Procs :
          (Leaves(p, "awp_check") /\ IsBlocked(call[p].username))
          => /\ pc'[p] = "idle"
             /\ Returned(AWP)'
             /\ ~last'.ret.ok
             /\ last'.ret.err = "Blocked"
             /\ ~last'.ret.core
             /\ UNCHANGED <<failedAttempts, blockUntil, resetTokens, alerts, users>>]_vars

\* C4 witness: a call was refused while a reset token was stored.
C4_Witness ==
    /\ Returned(AWP)
    /\ last.ret.err = "Blocked"
    /\ last.call.username \in DOMAIN resetTokens
    /\ failedAttempts[last.call.username] = attemptThreshold

\* C5: right after a call whose AuthenticateUser succeeded has returned, the
\* failed-attempt count of its username is 0, the username has no lockout,
\* and the call returned (true, nil).
C5_SuccessResets ==
    (Returned(AWP) /\ last.ret.core /\ last.ret.coreErr = "nil")
    => /\ failedAttempts[last.call.username] = 0
       /\ last.call.username \notin DOMAIN blockUntil
       /\ last.ret.ok
       /\ last.ret.err = "nil"

\* C5 witness: a success for a username that had been locked out.
C5_Witness ==
    /\ Returned(AWP)
    /\ last.ret.ok
    /\ hist[last.call.username].lockouts >= 1

C6_Step ==
    \A p \in Procs :
        (/\ Leaves(p, "awp_check")
         /\ call[p].username \in DOMAIN blockUntil
         /\ now >= blockUntil[call[p].username])
        => (pc'[p] = "awp_auth" /\ ret'[p].note = "expired")

C6_Post ==
    (Returned(AWP) /\ last.ret.note = "expired")
    => /\ last.ret.core
       /\ last.ret.err # "Blocked"
       /\ (/\ CorrectCredentials(last.call.username, last.call.gp)
           /\ last.ret.coreErr # "StoreError")
          => (last.ret.ok /\ last.ret.err = "nil")

\* C6: a call checked at or after the expiry of its username's lockout is not
\* refused but calls AuthenticateUser, and with credentials the store
\* verifies (and no store error) it returns (true, nil).
C6_LockoutLifts == [][C6_Step /\ C6_Post']_vars

\* C6 witness: a success that found an expired lockout.
C6_Witness == Returned(AWP) /\ last.ret.note = "expired" /\ last.ret.ok

\* C7: a call that AuthenticateUser failed returns false with the error
\* AuthenticateUser returned, never Blocked, also when it sets the lockout.
C7_OriginalError ==
    (Returned(AWP) /\ last.ret.core /\ last.ret.coreErr # "nil")
    => /\ ~last.ret.ok
       /\ last.ret.err = last.ret.coreErr
       /\ last.ret.err \in {"NotFound", "InvalidCredential", "StoreError"}

\* C7 witness: the call that set the lockout returned InvalidCredential.
C7_Witness ==
    /\ Returned(AWP)
    /\ last.ret.locked
    /\ last.ret.err = "InvalidCredential"

\* C8: when the token last stored for a username was returned by
\* InitiatePasswordReset, no other reset operation for the username began or
\* validated since, and less than tokenDuration has passed since the store,
\* ValidateResetToken returns true exactly for that token.
C8_FreshTokenValidates ==
    [][\A p \in Procs :
          (/\ Leaves(p, "vrt_body")
           /\ hist[call[p].username].issued.fresh
           /\ hist[call[p].username].issued.returned
           /\ now < hist[call[p].username].issued.storedAt + tokenDuration)
          => /\ Returned(VRT)'
             /\ last'.ret.ok = (call[p].token = hist[call[p].username].issued.token)]_vars

\* C8 witness: a validation of the returned token succeeded.
C8_Witness ==
    /\ Returned(VRT)
    /\ last.ret.ok
    /\ hist[last.call.username].issued.returned
    /\ hist[last.call.username].issued.token = last.call.token
    /\ now < hist[last.call.username].issued.storedAt + tokenDuration

\* C9: ValidateResetToken returns true only before the expiry instant of the
\* stored token (its store time plus tokenDuration).
C9_NeverValidAtExpiry ==
    (Returned(VRT) /\ last.ret.ok)
    => now < hist[last.call.username].issued.storedAt + tokenDuration

\* C10: a validation with the stored token made after tokenDuration has
\* elapsed returns false and leaves no entry for the username, and a
\* validation with a token found expired before returns false as long as no
\* token has been stored since.
C10_ExpiredStaysInvalid ==
    [][\A p \in Procs :
          Leaves(p, "vrt_body")
          => /\ (/\ DurationElapsed(call[p].username)
                 /\ call[p].token = hist[call[p].username].issued.token)
                => (/\ Returned(VRT)'
                    /\ ~last'.ret.ok
                    /\ call[p].username \notin DOMAIN resetTokens')
             /\ (/\ hist[call[p].username].expiredTok # ""
                 /\ call[p].token = hist[call[p].username].expiredTok)
                => (Returned(VRT)' /\ ~last'.ret.ok)]_vars

\* C10 witness: a second validation with the expired token failed.
C10_Witness ==
    /\ Returned(VRT)
    /\ last.ret.note = "again"
    /\ ~last.ret.ok
    /\ last.call.username \notin DOMAIN resetTokens

\* C11: once a validation of a token has returned true for a username, and no
\* InitiatePasswordReset for the username has begun or stored since, a
\* validation of the same token returns false.
C11_SingleUse ==
    [][\A p \in Procs :
          (/\ Leaves(p, "vrt_body")
           /\ obs[call[p].username].used # ""
           /\ call[p].token = obs[call[p].username].used)
          => (Returned(VRT)' /\ ~last'.ret.ok)]_vars

\* C12: the token stored for a username is the one of the most recent store
\* for it, with that store's expiry (a map holds one entry per username), and
\* a validation returns true for no other token: a token an earlier store
\* wrote and a later store replaced is refused.
C12_LatestTokenOnly ==
    /\ \A u \in DOMAIN resetTokens :
          /\ resetTokens[u].token = hist[u].issued.token
          /\ resetTokens[u].expiresAt = hist[u].issued.storedAt + tokenDuration
    /\ (Returned(VRT) /\ last.ret.ok)
       => last.call.token = hist[last.call.username].issued.token

\* C12 witness: a call that has stored its token is still sending, another
\* call has stored a different token since, and the validation of the first
\* token, not yet expired, has returned false.
C12_Witness ==
    /\ Returned(VRT)
    /\ ~last.ret.ok
    /\ last.call.username \in DOMAIN resetTokens
    /\ resetTokens[last.call.username].token # last.call.token
    /\ ~TokenExpired(resetTokens[last.call.username].expiresAt)
    /\ \E p \in Procs :
          /\ pc[p] = "ipr_send"
          /\ call[p].username = last.call.username
          /\ ret[p].token = last.call.token

\* C13: InitiatePasswordReset returns a token exactly when it returns no
\* error, and then the token it stored; the send, failed or not, leaves the
\* stored tokens as they are: after a failed send the token is still stored
\* when it is the last one stored and has not expired, and a validation of it
\* before its expiry, with no store in between, returns true.
C13_TokenOnlyWhenSent ==
    [][\A p \in Procs :
          LET u == call[p].username
          IN  /\ (pc[p] = "idle" /\ pc'[p] = "idle" /\ budget' < budget
                  /\ Returned(IPR)')
                 => (last'.ret.token = "" /\ last'.ret.err # "nil")
              /\ Leaves(p, "ipr_send")
                 => /\ Returned(IPR)'
                    /\ UNCHANGED resetTokens
                    /\ (last'.ret.token # "") = (last'.ret.err = "nil")
                    /\ last'.ret.err = "nil" => last'.ret.token = ret[p].token
                    /\ (/\ last'.ret.err # "nil"
                        /\ hist[u].issued.token = ret[p].token
                        /\ now < hist[u].issued.storedAt + tokenDuration)
                       => (/\ u \in DOMAIN resetTokens'
                           /\ resetTokens'[u].token = ret[p].token)
              /\ (/\ Leaves(p, "vrt_body")
                  /\ obs[u].unsent # ""
                  /\ call[p].token = obs[u].unsent
                  /\ now < hist[u].issued.storedAt + tokenDuration)
                 => (Returned(VRT)' /\ last'.ret.ok)]_vars

\* C13 witness: the token of a failed send has validated.
C13_Witness ==
    /\ Returned(VRT)
    /\ last.ret.ok
    /\ obs[last.call.username].unsent = last.call.token
    /\ ~hist[last.call.username].issued.returned

\* C14: the call that sets a lockout returns in the step that starts the
\* alert, which is then still running, with AuthenticateUser's error and the
\* lockout and the count it set; the end of an alert, whatever its send
\* returned, changes no count, no lockout and no call.
C14_AlertFireAndForget ==
    [][/\ (Returned(AWP)' /\ last'.ret.locked)
          => /\ alerts' = alerts + 1
             /\ ~last'.ret.ok
             /\ last'.ret.err = last'.ret.coreErr
             /\ last'.call.username \in DOMAIN blockUntil'
             /\ blockUntil'[last'.call.username] = now + blockDuration
             /\ failedAttempts'[last'.call.username] >= attemptThreshold
       /\ alerts' < alerts
          => /\ UNCHANGED <<failedAttempts, blockUntil, pc, call, ret, users,
                            resetTokens, mu>>
             /\ last' = NoLast]_vars

\* C14 witness: the alert of a lockout has ended and the lockout stands.
C14_Witness ==
    /\ alerts = 0
    /\ \E u \in DOMAIN blockUntil :
          /\ hist[u].lockouts = 1
          /\ failedAttempts[u] = attemptThreshold
          /\ blockUntil[u] = hist[u].lastFail + blockDuration
          /\ IsBlocked(u)

\* C15: CheckGraphicalPasswordHash(s2, HashGraphicalPassword(s2)) returns no
\* error for every password s2, and CheckGraphicalPasswordHash(s1,
\* HashGraphicalPassword(s2)) returns an error for all s1, s2 whose encodings
\* differ.
C15_HashRoundTrip ==
    codec.stage = "checked"
    => /\ ~codec.herr
       /\ codec.v2
       /\ codec.e1 # codec.e2 => ~codec.v1

\* C16: two different passwords (the empty one, passwords of different
\* lengths, with multi-digit and negative indices) have different encodings.
C16_EncodingInjective ==
    (codec.stage # "input" /\ codec.s1 # codec.s2) => codec.e1 # codec.e2

\* C16 witness: [1,23] and [12,3] are encoded, as "1-23" and "12-3".
C16_Witness ==
    /\ codec.stage = "encoded"
    /\ codec.s1 = <<1, 23>>
    /\ codec.s2 = <<12, 3>>
    /\ codec.e1 = <<"1", "-", "2", "3">>
    /\ codec.e2 = <<"1", "2", "-", "3">>

\* the store holds a record with the username or the email of call c
Taken(c) == \E r \in users : r.Username = c.username \/ r.Email = c.email

\* C17: a RegisterUser call whose username or email a stored record has goes
\* no further than the existence query and returns ErrUserExists (or, when the
\* query itself fails, the store's error); and a step of RegisterUser changes
\* the store only when the call returns nil, by the one record of the call:
\* on every error return the store is as it was.
C17_DuplicateRejected ==
    [][/\ \A p \in Procs :
            (pc[p] = "idle" /\ pc'[p] = "ru_insert") => ~Taken(call'[p])
       /\ (Returned(REG)' /\ budget' < budget /\ Taken(last'.call))
          => last'.ret.err \in {"UserExists", "StoreError"}
       /\ (Returned(REG)' /\ last'.ret.err = "UserExists") => Taken(last'.call)
       /\ (Returned(REG)' /\ last'.ret.err # "nil")
          => (users' = users /\ ~last'.ret.ok)
       /\ users' # users
          => /\ Returned(REG)'
             /\ last'.ret.err = "nil"
             /\ \E r \in users' \ users :
                   /\ users' = users \cup {r}
                   /\ r.Username = last'.call.username
                   /\ r.Email = last'.call.email
                   /\ CheckGraphicalPasswordHash(last'.call.gp,
                                                 r.GraphicalPasswordHash)]_vars

\* C17 witness: a new username with the email of a stored record is refused.
C17_Witness ==
    /\ Returned(REG)
    /\ last.ret.err = "UserExists"
    /\ last.call.username = "bob"
    /\ last.call.email = "alice@example.com"
    /\ \A r \in users : r.Username # "bob"

\* C18: no two stored records have the same username, and no two the same
\* email.
C18_UniqueIdentities ==
    \A r1 \in users, r2 \in users :
        r1 # r2 => (r1.Username # r2.Username /\ r1.Email # r2.Email)

\* C19: a call of AuthenticateUser leaves the store as it is and never
\* returns true with an error; unless the store's query fails, it returns
\* (false, NotFound) when no record has the username, (false,
\* InvalidCredential) when the password verifies against no record of the
\* username, and (true, nil) when it verifies.
C19_AuthenticateUserOutcomes ==
    [][Returned(AU)' =>
          LET c == last'.call
              r == last'.ret
              found == {x \in users : x.Username = c.username}
              verified == {x \in found :
                              CheckGraphicalPasswordHash(c.gp, x.GraphicalPasswordHash)}
          IN  /\ users' = users
              /\ ~(r.ok /\ r.err # "nil")
              /\ r.err \in {"nil", "NotFound", "InvalidCredential", "StoreError"}
              /\ r.err = "nil" => r.ok
              /\ r.err # "StoreError"
                 => /\ found = {} => r.err = "NotFound"
                    /\ (found # {} /\ verified = {}) => r.err = "InvalidCredential"
                    /\ (found # {} /\ verified = found) => (r.ok /\ r.err = "nil")]_vars

\* C19 witness: bob, registered by a RegisterUser call, is authenticated.
C19_Witness ==
    /\ Returned(AU)
    /\ last.ret.ok
    /\ last.call.username = "bob"

\* C20: a call sets a lockout only as the attemptThreshold-th (or a later)
\* failed call since the last success and since the last expiry of a lockout
\* of its username.
C20_RelockNeedsThreshold ==
    (Returned(AWP) /\ last.ret.locked)
    => obs[last.call.username].sinceLift >= attemptThreshold

\* C21: a ValidateResetToken call creates and replaces no reset-token entry
\* (the entries after it are entries that were there before, unchanged); when
\* the username has a stored token whose expiry is still ahead the entry is
\* left as it is, whether or not the supplied token matches; when the
\* username has no entry or the expiry of its entry has passed, the username
\* has no entry afterwards and every other entry is as before; and the call
\* changes no failed-attempt count and no lockout.
C21_ValidateFrame ==
    [][\A p \in Procs :
          Leaves(p, "vrt_body") =>
              LET u == call[p].username
                  exists == u \in DOMAIN resetTokens
              IN  /\ DOMAIN resetTokens' \subseteq DOMAIN resetTokens
                  /\ \A v \in DOMAIN resetTokens' : resetTokens'[v] = resetTokens[v]
                  /\ (exists /\ now < resetTokens[u].expiresAt)
                     => resetTokens' = resetTokens
                  /\ (~exists \/ (exists /\ now > resetTokens[u].expiresAt))
                     => /\ u \notin DOMAIN resetTokens'
                        /\ DOMAIN resetTokens' = DOMAIN resetTokens \ {u}
                  /\ failedAttempts' = failedAttempts
                  /\ blockUntil' = blockUntil]_vars

\* C21 witness: a validation with a token that does not match has returned
\* false for a locked username with a failed-attempt count, and the stored
\* token, not yet expired, is still there.
C21_Witness ==
    /\ Returned(VRT)
    /\ ~last.ret.ok
    /\ last.call.username \in DOMAIN resetTokens
    /\ now < resetTokens[last.call.username].expiresAt
    /\ resetTokens[last.call.username].token # last.call.token
    /\ last.call.username \in DOMAIN blockUntil
    /\ failedAttempts[last.call.username] >= attemptThreshold

\* C22: input that fails validation is rejected before shared state is
\* touched: a RegisterUser call with a malformed email or an empty graphical
\* password returns an error and inserts no record, and no step of an
\* AuthenticateWithProtection call with an empty graphical password changes
\* the failed-attempt count or the lockout of its username, and the call
\* returns an error.
C22_InvalidInputRejected ==
    [][/\ (/\ Returned(REG)'
           /\ (~IsValidEmail(last'.call.email) \/ last'.call.gp = <<>>))
          => (~last'.ret.ok /\ users' = users)
       /\ \A p \in Procs :
             (/\ call[p].op = AWP
              /\ call[p].gp = <<>>
              /\ pc'[p] # pc[p])
             => LET u == call[p].username
                IN  /\ failedAttempts'[u] = failedAttempts[u]
                    /\ (u \in DOMAIN blockUntil') = (u \in DOMAIN blockUntil)
                    /\ u \in DOMAIN blockUntil => blockUntil'[u] = blockUntil[u]
                    /\ last'.ret.done => ~last'.ret.ok]_vars

\* C23: under any interleaving of concurrent calls, a username with a lockout
\* expiry recorded has a failed-attempt count of at least attemptThreshold;
\* a step that lowers the count sets it to 0 and removes the expiry with it;
\* and a step that writes an expiry is the failure step that has just counted
\* the username up to attemptThreshold or more.
C23_LockoutImpliesThreshold ==
    [][\A u \in Usernames :
          /\ u \in DOMAIN blockUntil' => failedAttempts'[u] >= attemptThreshold
          /\ failedAttempts'[u] < failedAttempts[u]
             => (failedAttempts'[u] = 0 /\ u \notin DOMAIN blockUntil')
          /\ (/\ u \in DOMAIN blockUntil'
              /\ (u \notin DOMAIN blockUntil \/ blockUntil'[u] # blockUntil[u]))
             => \E p \in Procs :
                    /\ Leaves(p, "awp_fail")
                    /\ call[p].username = u
                    /\ failedAttempts'[u] = failedAttempts[u] + 1
                    /\ failedAttempts'[u] >= attemptThreshold]_vars

\* C23 witness: a call that ran beside others has written the lockout expiry
\* with the count already above attemptThreshold.
C23_Witness ==
    /\ Returned(AWP)
    /\ last.ret.locked
    /\ last.call.username \in DOMAIN blockUntil
    /\ failedAttempts[last.call.username] > attemptThreshold
    /\ hist[last.call.username].overlap

\* the mutex is held by no caller that has returned or that waits for a
\* collaborator
C24_Released ==
    \A p \in Procs : pc[p] \in Collaborating \cup {"idle"} => mu # p

\* a caller inside a critical section can run it, and a caller whose
\* collaborator has returned can go on as soon as the mutex is free
C24_NoDeadlock ==
    \A p \in TwoProcs :
        /\ pc[p] \in Critical => (mu = p /\ ENABLED CriticalStep(p))
        /\ (pc[p] \in Collaborating /\ mu = NoProc) => ENABLED CollaboratorReturns(p)

\* C24: the mutex is released on every path of the three operations and is
\* not held while AuthenticateUser or the notifier send runs; no deadlock is
\* reachable with concurrent callers; a caller whose collaborator never
\* returns blocks no one else: the other caller's critical sections end; and
\* every call of a caller whose collaborators return terminates.
C24_LockDiscipline ==
    /\ [](C24_Released /\ C24_NoDeadlock)
    /\ \A p \in TwoProcs : (pc[p] \in Critical) ~> (pc[p] \notin Critical)
    /\ \A p \in Served : (pc[p] # "idle") ~> (pc[p] = "idle")

\* C24 witness: of two overlapping AuthenticateWithProtection calls for one
\* username, one has gone through both its critical sections and returned
\* while the other still waits for AuthenticateUser.
C24_Witness ==
    /\ Returned(AWP)
    /\ last.ret.core
    /\ budget = MaxCalls - 2
    /\ \E p \in SeqProcs :
          /\ pc[p] = "awp_auth"
          /\ call[p].username = last.call.username
    /\ hist[last.call.username].overlap
    /\ mu = NoProc

=============================================================================
